---- MODULE Spec2Model ----
(***************************************************************************)
(* Personal budget tracker: the Expense record (expense.py), the Budget    *)
(* ledger with its CSV mirror (budget.py), the summary aggregation         *)
(* (analytics.py) and the Flask request handlers that drive them (app.py). *)
(*                                                                         *)
(* Python str values are sequences of one-character strings, so that       *)
(* strip(), lower() and startswith() are computed and not assumed.         *)
(* Python float values are integers (whole currency units); percentages    *)
(* are kept in tenths of a percent, the unit round(x, 1) rounds to.        *)
(***************************************************************************)
EXTENDS Integers, Sequences, FiniteSets, TLC

(***************************************************************************)
(* Bounds of the model.                                                    *)
(***************************************************************************)
MaxLen == 3

(***************************************************************************)
(* Python values.                                                          *)
(***************************************************************************)
\* Python's None where a str is expected: no str is equal to it, because
\* every element of a str is a single character.
None == <<"None">>

\* bool(s) for s a str or None, as used by `x or y` and `if x:`.
Truthy(s) == s # None /\ s # <<>>

\* A value handed to float(): either a str or already a float.
PyStr(s) == [tag |-> "str", str |-> s, num |-> 0]
PyFloat(n) == [tag |-> "float", str |-> <<>>, num |-> n]

Digits == <<"0", "1", "2", "3", "4", "5", "6", "7", "8", "9">>
IsDigit(c) == \E i \in 1..10 : Digits[i] = c
DigitVal(c) == (CHOOSE i \in 1..10 : Digits[i] = c) - 1

RECURSIVE ParseDigits(_)
ParseDigits(s) ==
    IF s = <<>> THEN 0
    ELSE 10 * ParseDigits(SubSeq(s, 1, Len(s) - 1)) + DigitVal(s[Len(s)])

AllDigits(s) == s # <<>> /\ \A i \in 1..Len(s) : IsDigit(s[i])

\* float(str) on the decimal literals the model feeds it: an optional
\* sign, digits, and an optional ".0".  Anything else raises ValueError.
ParseFloat(s) ==
    LET neg  == s # <<>> /\ s[1] = "-"
        body == IF neg THEN SubSeq(s, 2, Len(s)) ELSE s
        frac == Len(body) >= 2 /\ SubSeq(body, Len(body) - 1, Len(body)) = <<".", "0">>
        int  == IF frac THEN SubSeq(body, 1, Len(body) - 2) ELSE body
    IN  IF AllDigits(int)
        THEN [ok |-> TRUE, val |-> IF neg THEN 0 - ParseDigits(int) ELSE ParseDigits(int)]
        ELSE [ok |-> FALSE, val |-> 0]

\* float(v): the identity on a float, a parse on a str.
Float(v) == IF v.tag = "float" THEN [ok |-> TRUE, val |-> v.num] ELSE ParseFloat(v.str)

RECURSIVE FormatDigits(_)
FormatDigits(n) ==
    IF n < 10 THEN <<Digits[n + 1]>>
    ELSE FormatDigits(n \div 10) \o <<Digits[(n % 10) + 1]>>

\* str(float) of an integral float, as csv.DictWriter writes it: "100.0".
FormatFloat(n) ==
    (IF n < 0 THEN <<"-">> \o FormatDigits(0 - n) ELSE FormatDigits(n)) \o <<".", "0">>

UpperAlpha == <<"A", "B", "C", "D", "E", "F", "G", "H", "I", "J", "K", "L", "M",
                "N", "O", "P", "Q", "R", "S", "T", "U", "V", "W", "X", "Y", "Z">>
LowerAlpha == <<"a", "b", "c", "d", "e", "f", "g", "h", "i", "j", "k", "l", "m",
                "n", "o", "p", "q", "r", "s", "t", "u", "v", "w", "x", "y", "z">>

LowerChar(c) ==
    IF \E i \in 1..26 : UpperAlpha[i] = c
    THEN LowerAlpha[CHOOSE i \in 1..26 : UpperAlpha[i] = c]
    ELSE c

\* str.lower()
Lower(s) == [i \in 1..Len(s) |-> LowerChar(s[i])]

IsSpace(c) == c \in {" ", "\t", "\n"}

RECURSIVE LStrip(_)
LStrip(s) == IF s # <<>> /\ IsSpace(s[1]) THEN LStrip(Tail(s)) ELSE s

RECURSIVE RStrip(_)
RStrip(s) ==
    IF s # <<>> /\ IsSpace(s[Len(s)]) THEN RStrip(SubSeq(s, 1, Len(s) - 1)) ELSE s

\* str.strip()
Strip(s) == RStrip(LStrip(s))

\* str.startswith(p)
StartsWith(s, p) == Len(p) <= Len(s) /\ SubSeq(s, 1, Len(p)) = p

(***************************************************************************)
(* expense.py                                                              *)
(***************************************************************************)
Food == <<"F", "o", "o", "d">>
Transport == <<"T", "r", "a", "n", "s", "p", "o", "r", "t">>
Housing == <<"H", "o", "u", "s", "i", "n", "g">>
Health == <<"H", "e", "a", "l", "t", "h">>
Entertainment == <<"E", "n", "t", "e", "r", "t", "a", "i", "n", "m", "e", "n", "t">>
Shopping == <<"S", "h", "o", "p", "p", "i", "n", "g">>
Education == <<"E", "d", "u", "c", "a", "t", "i", "o", "n">>
Other == <<"O", "t", "h", "e", "r">>

CATEGORIES == <<Food, Transport, Housing, Health, Entertainment, Shopping, Education, Other>>

InCategories(c) == \E i \in 1..Len(CATEGORIES) : CATEGORIES[i] = c

\* Expense.__init__.  uuid is the token str(uuid.uuid4())[:8] would give and
\* today the value of datetime.today().strftime("%Y-%m-%d"); amount is a
\* value float() accepts.
Expense(amount, category, description, date_str, expense_id, uuid, today) ==
    [id          |-> IF Truthy(expense_id) THEN expense_id ELSE uuid,
     amount      |-> Float(amount).val,
     category    |-> IF InCategories(category) THEN category ELSE Other,
     description |-> Strip(description),
     date        |-> IF Truthy(date_str) THEN date_str ELSE today]

\* Expense.to_dict followed by csv.DictWriter.writerow: every field is
\* written with str(); None is written as the empty field.
to_dict(e) ==
    [id          |-> e.id,
     amount      |-> FormatFloat(e.amount),
     category    |-> e.category,
     description |-> e.description,
     date        |-> IF e.date = None THEN <<>> ELSE e.date]

\* Expense.from_dict on a row read by csv.DictReader (all fields are str).
from_dict(d, uuid, today) ==
    Expense(PyStr(d.amount), d.category, d.description, d.date, d.id, uuid, today)

(***************************************************************************)
(* budget.py                                                               *)
(***************************************************************************)
\* The backing file expenses.csv: absent, or a header and one row per record.
NoFile == [exists |-> FALSE, rows |-> <<>>]

\* Budget._load into the empty list Budget.__init__ starts from.
_load(f, uuid, today) ==
    IF ~f.exists THEN <<>>
    ELSE [i \in 1..Len(f.rows) |-> from_dict(f.rows[i], uuid, today)]

\* Budget._save: the file is rewritten whole from the list.
_save(exps) == [exists |-> TRUE, rows |-> [i \in 1..Len(exps) |-> to_dict(exps[i])]]

\* Budget.add: expenses.append(expense); _save(); return expense.
Budget_add(exps, f, e) ==
    LET new == Append(exps, e)
    IN  [expenses |-> new, file |-> _save(new), ret |-> "Expense", saved |-> TRUE]

\* A faulty read_all that compares categories without lower(); C7 tells it
\* from the real one.
read_all_CaseSensitive(exps, category, month) ==
    LET r1 == IF Truthy(category)
              THEN SelectSeq(exps, LAMBDA e : e.category = category)
              ELSE exps
        r2 == IF Truthy(month)
              THEN SelectSeq(r1, LAMBDA e : StartsWith(e.date, month))
              ELSE r1
    IN  r2

\* Budget.read_all
read_all(exps, category, month) ==
    LET r1 == IF Truthy(category)
              THEN SelectSeq(exps, LAMBDA e : Lower(e.category) = Lower(category))
              ELSE exps
        r2 == IF Truthy(month)
              THEN SelectSeq(r1, LAMBDA e : StartsWith(e.date, month))
              ELSE r1
    IN  r2

\* The position the loop of Budget.update stops at: the first record with
\* the id, 0 when the loop runs to its end.
RECURSIVE FirstWithId(_, _, _)
FirstWithId(exps, expense_id, i) ==
    IF i > Len(exps) THEN 0
    ELSE IF exps[i].id = expense_id THEN i
    ELSE FirstWithId(exps, expense_id, i + 1)

\* The assignments Budget.update makes to the record it found.
ApplyFields(exp, kwargs) ==
    LET K == DOMAIN kwargs
    IN  [id          |-> exp.id,
         amount      |-> IF "amount" \in K THEN Float(kwargs["amount"]).val ELSE exp.amount,
         category    |-> IF "category" \in K /\ InCategories(kwargs["category"])
                         THEN kwargs["category"] ELSE exp.category,
         description |-> IF "description" \in K THEN Strip(kwargs["description"])
                         ELSE exp.description,
         date        |-> IF "date" \in K THEN kwargs["date"] ELSE exp.date]

\* A faulty update that calls _save() after the loop too, so also when no
\* record has the id; C4 tells it from the real one.
Budget_update_SavesWhenNotFound(exps, f, expense_id, kwargs) ==
    LET i == FirstWithId(exps, expense_id, 1)
    IN  IF i = 0
        THEN [expenses |-> exps, file |-> _save(exps), ret |-> "None", saved |-> TRUE]
        ELSE LET new == [exps EXCEPT ![i] = ApplyFields(exps[i], kwargs)]
             IN  [expenses |-> new, file |-> _save(new), ret |-> "Expense", saved |-> TRUE]

\* Budget.update
Budget_update(exps, f, expense_id, kwargs) ==
    LET i == FirstWithId(exps, expense_id, 1)
    IN  IF i = 0
        THEN [expenses |-> exps, file |-> f, ret |-> "None", saved |-> FALSE]
        ELSE LET new == [exps EXCEPT ![i] = ApplyFields(exps[i], kwargs)]
             IN  [expenses |-> new, file |-> _save(new), ret |-> "Expense", saved |-> TRUE]

\* Budget.delete
Budget_delete(exps, f, expense_id) ==
    LET original == Len(exps)
        new      == SelectSeq(exps, LAMBDA e : e.id # expense_id)
    IN  IF Len(new) < original
        THEN [expenses |-> new, file |-> _save(new), ret |-> "True", saved |-> TRUE]
        ELSE [expenses |-> new, file |-> f, ret |-> "False", saved |-> FALSE]

RECURSIVE SumAmounts(_)
SumAmounts(exps) == IF exps = <<>> THEN 0 ELSE exps[1].amount + SumAmounts(Tail(exps))

\* Budget.total
Budget_total(exps, category, month) == SumAmounts(read_all(exps, category, month))

(***************************************************************************)
(* analytics.py                                                            *)
(***************************************************************************)
\* Analytics._by_category: a dict, kept here as the sequence of its items in
\* insertion order (the order in which categories first appear).
RECURSIVE _by_category(_)
_by_category(exps) ==
    IF exps = <<>> THEN <<>>
    ELSE LET e      == exps[Len(exps)]
             totals == _by_category(SubSeq(exps, 1, Len(exps) - 1))
         IN  IF \E i \in 1..Len(totals) : totals[i].category = e.category
             THEN [i \in 1..Len(totals) |->
                     IF totals[i].category = e.category
                     THEN [category |-> e.category, amount |-> totals[i].amount + e.amount]
                     ELSE totals[i]]
             ELSE Append(totals, [category |-> e.category, amount |-> e.amount])

\* sorted(items, key=lambda x: -x[1]): a stable sort, largest amount first.
RECURSIVE SortedByAmountDesc(_)
SortedByAmountDesc(items) ==
    IF items = <<>> THEN <<>>
    ELSE LET x    == items[Len(items)]
             rest == SortedByAmountDesc(SubSeq(items, 1, Len(items) - 1))
             keep == SelectSeq(rest, LAMBDA y : y.amount >= x.amount)
             move == SelectSeq(rest, LAMBDA y : y.amount < x.amount)
         IN  keep \o <<x>> \o move

\* A faulty percentage that truncates to the tenth below instead of
\* rounding; C8 tells it from the real one.
RoundPercent_Truncating(num, den) ==
    LET n == IF den < 0 THEN 0 - (num * 1000) ELSE num * 1000
        d == IF den < 0 THEN 0 - den ELSE den
    IN  IF n >= 0 THEN n \div d ELSE 0 - (((0 - n) + d - 1) \div d)

\* round(num / den * 100, 1) in tenths of a percent, den # 0: the nearest
\* tenth, an exact tie going to the even one as Python's round() does.
RoundPercent(num, den) ==
    LET n  == IF den < 0 THEN 0 - (num * 1000) ELSE num * 1000
        d  == IF den < 0 THEN 0 - den ELSE den
        fl == IF n >= 0 THEN n \div d ELSE 0 - (((0 - n) + d - 1) \div d)
        r  == n - fl * d
    IN  IF 2 * r < d THEN fl
        ELSE IF 2 * r > d THEN fl + 1
        ELSE IF fl % 2 = 0 THEN fl ELSE fl + 1

\* Analytics.summary
summary(exps, month) ==
    LET filtered == read_all(exps, None, month)
        total    == SumAmounts(filtered)
        by_cat   == _by_category(filtered)
        sorted   == SortedByAmountDesc(by_cat)
    IN  [total     |-> total,
         count     |-> Len(filtered),
         breakdown |-> [i \in 1..Len(sorted) |->
                          [category |-> sorted[i].category,
                           amount   |-> sorted[i].amount,
                           percent  |-> IF total # 0
                                        THEN RoundPercent(sorted[i].amount, total)
                                        ELSE 0]]]

(***************************************************************************)
(* Inputs of the model.                                                    *)
(***************************************************************************)
\* Tokens str(uuid.uuid4())[:8] can give, and ids a caller can supply.
\* Neither Expense.__init__ nor Budget.add compares a new id with the ids
\* already stored, so a token can come up again.
Ids == {<<"a", "1">>, <<"b", "2">>}

\* The value of datetime.today().strftime("%Y-%m-%d").
Today == <<"2", "0", "2", "4", "-", "0", "6", "-", "0", "1">>

May01 == <<"2", "0", "2", "4", "-", "0", "5", "-", "0", "1">>
May02 == <<"2", "0", "2", "4", "-", "0", "5", "-", "0", "2">>
May == <<"2", "0", "2", "4", "-", "0", "5">>
June == <<"2", "0", "2", "4", "-", "0", "6">>

\* request.form of POST /add
AddForms ==
    { [amount |-> <<"1", "0", "0">>, category |-> Food,
       description |-> <<" ", "l", "u", "n", "c", "h">>, date |-> May01],
      [amount |-> <<"0">>, category |-> <<"B", "o", "g", "u", "s">>,
       description |-> <<"g", "i", "f", "t">>, date |-> <<>>],
      [amount |-> <<"a", "b", "c">>, category |-> Food,
       description |-> <<"x">>, date |-> May01] }

\* request.form of POST /update/<expense_id>
UpdateForms ==
    { [amount |-> <<"-", "5">>, category |-> <<"B", "o", "g", "u", "s">>,
       description |-> <<" ", "t", "a", "x", "i", " ">>, date |-> <<>>],
      [amount |-> <<"1", "e">>, category |-> Food,
       description |-> <<"x">>, date |-> May01] }

\* Keyword arguments of a direct call of Budget.update with some fields only.
PartialKwargs == { [category |-> Food] }

\* Query strings of GET / and GET /analytics (request.args), and keyword
\* arguments of Budget.total.
IndexArgs == { [category |-> <<>>, month |-> <<>>],
               [category |-> <<"f", "o", "o", "d">>, month |-> May] }
TotalArgs == { [category |-> Food, month |-> None] }
AnalyticsArgs == { <<>> }

\* Forms and query strings for the read-side checks: the ledgers the
\* reads are applied to are those POST /add builds from these forms.
MaxQueryLen == 3

QueryForms ==
    { [amount |-> <<"1", "0", "0">>, category |-> Food,
       description |-> <<"l", "u", "n", "c", "h">>, date |-> May01],
      [amount |-> <<"5", "0">>, category |-> Transport,
       description |-> <<"b", "u", "s">>, date |-> May02],
      [amount |-> <<"2", "0", "0">>, category |-> Food,
       description |-> <<"g", "r", "o", "c", "e", "r", "i", "e", "s">>, date |-> Today],
      [amount |-> <<"5", "0">>, category |-> <<"f", "o", "o", "d">>,
       description |-> <<"t", "i", "p">>, date |-> <<>>],
      [amount |-> <<"-", "5", "0">>, category |-> Health,
       description |-> <<"r", "e", "f", "u", "n", "d">>, date |-> May02] }

QueryId(i) == <<"e", Digits[i + 1]>>

CategoryArgs == {<<>>, Food, <<"f", "o", "o", "d">>, <<"F", "O", "O", "D">>, <<"F", "o", "o">>}
MonthArgs == {<<>>, May, June}

(***************************************************************************)
(* The running application: app.py's module-level Budget and its file.     *)
(***************************************************************************)
VARIABLES expenses, file, lastOp, response

\* Request handlers running as threads on the shared Budget (see the last
\* part of the module): the list objects, the one self.expenses refers to,
\* and each thread's request, position and local variables.
VARIABLES heap, self_expenses, pc, req, loc, overlapped

vars == <<expenses, file, lastOp, response, heap, self_expenses, pc, req, loc, overlapped>>
cvars == <<heap, self_expenses, pc, req, loc, overlapped>>

Threads == {1, 2}

NoLocals == [ref |-> 0, i |-> 0, acc |-> <<>>, original |-> 0, buf |-> <<>>, ret |-> "None"]
NoExpense == [id |-> None, amount |-> 0, category |-> Other, description |-> <<>>, date |-> <<>>]
NoRequest == [op |-> "none", exp |-> NoExpense, expense_id |-> None]

\* No handler thread is running: one request at a time.
NoThreads ==
    /\ heap = <<>>
    /\ self_expenses = 0
    /\ pc = [t \in Threads |-> "done"]
    /\ req = [t \in Threads |-> NoRequest]
    /\ loc = [t \in Threads |-> NoLocals]
    /\ overlapped = FALSE

\* What the last handler did: its name, what the Budget method returned
\* to it ("error" when the handler's except clause ran) and whether
\* Budget._save was called.
Done(op, ret, saved) == [op |-> op, ret |-> ret, saved |-> saved]

\* What a handler that reads hands to its caller: the filters it was
\* called with, the list read_all returned, the total, the summary.
NoSummary == [total |-> 0, count |-> 0, breakdown |-> <<>>]
NoResponse ==
    [category |-> None, month |-> None, expenses |-> <<>>, total |-> 0, summary |-> NoSummary]

\* budget = Budget() at import of app.py, with no expenses.csv yet.
Init ==
    /\ file = NoFile
    /\ expenses = _load(NoFile, CHOOSE u \in Ids : TRUE, Today)
    /\ lastOp = Done("init", "None", FALSE)
    /\ response = NoResponse
    /\ NoThreads

\* The Expense POST /add builds from its form, amount being the parsed
\* float: Expense(amount, category, description, date_str) with
\* date_str = request.form["date"] or None.
NewExpense(amount, form, uuid) ==
    Expense(PyFloat(amount), form.category, form.description,
            IF Truthy(form.date) THEN form.date ELSE None, None, uuid, Today)

\* POST /add
add(form, uuid) ==
    /\ Len(expenses) < MaxLen
    /\ LET amount == ParseFloat(form.amount)
       IN  IF ~amount.ok
           THEN /\ UNCHANGED <<expenses, file>>
                /\ lastOp' = Done("add", "error", FALSE)
                /\ response' = NoResponse
                /\ UNCHANGED cvars
           ELSE LET r == Budget_add(expenses, file, NewExpense(amount.val, form, uuid))
                IN  /\ expenses' = r.expenses
                    /\ file' = r.file
                    /\ lastOp' = Done("add", r.ret, r.saved)
                    /\ response' = NoResponse
                    /\ UNCHANGED cvars

\* Budget.add called with an Expense whose id the caller supplies.
add_with_id(form, expense_id) ==
    /\ Len(expenses) < MaxLen
    /\ ParseFloat(form.amount).ok
    /\ LET exp == Expense(PyStr(form.amount), form.category, form.description,
                          form.date, expense_id, expense_id, Today)
           r   == Budget_add(expenses, file, exp)
       IN  /\ expenses' = r.expenses
           /\ file' = r.file
           /\ lastOp' = Done("add_with_id", r.ret, r.saved)
           /\ response' = NoResponse
           /\ UNCHANGED cvars

\* POST /update/<expense_id>
update(expense_id, form) ==
    LET amount == ParseFloat(form.amount)
    IN  IF ~amount.ok
        THEN /\ UNCHANGED <<expenses, file>>
             /\ lastOp' = Done("update", "error", FALSE)
             /\ response' = NoResponse
             /\ UNCHANGED cvars
        ELSE LET fields == [amount      |-> PyFloat(amount.val),
                            category    |-> form.category,
                            description |-> form.description,
                            date        |-> form.date]
                 r == Budget_update(expenses, file, expense_id, fields)
             IN  /\ expenses' = r.expenses
                 /\ file' = r.file
                 /\ lastOp' = Done("update", r.ret, r.saved)
                 /\ response' = NoResponse
                 /\ UNCHANGED cvars

\* Budget.update called with some of the fields only.
update_partial(expense_id, kwargs) ==
    LET r == Budget_update(expenses, file, expense_id, kwargs)
    IN  /\ expenses' = r.expenses
        /\ file' = r.file
        /\ lastOp' = Done("update_partial", r.ret, r.saved)
        /\ response' = NoResponse
        /\ UNCHANGED cvars

\* POST /delete/<expense_id>
delete(expense_id) ==
    LET r == Budget_delete(expenses, file, expense_id)
    IN  /\ expenses' = r.expenses
        /\ file' = r.file
        /\ lastOp' = Done("delete", r.ret, r.saved)
        /\ response' = NoResponse
        /\ UNCHANGED cvars

\* GET /: Budget.read_all with the filters of the query string, and the sum.
index(category, month) ==
    LET cat == IF Truthy(category) THEN category ELSE None
        mon == IF Truthy(month) THEN month ELSE None
        res == read_all(expenses, cat, mon)
    IN  /\ UNCHANGED <<expenses, file>>
        /\ lastOp' = Done("index", "list", FALSE)
        /\ response' = [NoResponse EXCEPT !.category = cat, !.month = mon,
                                          !.expenses = res, !.total = SumAmounts(res)]
        /\ UNCHANGED cvars

\* Budget.total(category=..., month=...)
total(category, month) ==
    /\ UNCHANGED <<expenses, file>>
    /\ lastOp' = Done("total", "float", FALSE)
    /\ response' = [NoResponse EXCEPT !.category = category, !.month = month,
                                      !.total = Budget_total(expenses, category, month)]
    /\ UNCHANGED cvars

\* GET /analytics: Analytics.summary with the month of the query string.
analytics_page(month) ==
    LET mon == IF Truthy(month) THEN month ELSE None
    IN  /\ UNCHANGED <<expenses, file>>
        /\ lastOp' = Done("analytics_page", "dict", FALSE)
        /\ response' = [NoResponse EXCEPT !.month = mon, !.summary = summary(expenses, mon)]
        /\ UNCHANGED cvars

\* The process is started again: budget = Budget() loads expenses.csv.
restart(uuid) ==
    /\ expenses' = _load(file, uuid, Today)
    /\ UNCHANGED file
    /\ lastOp' = Done("restart", "None", FALSE)
    /\ response' = NoResponse
    /\ UNCHANGED cvars

Next ==
    \/ \E form \in AddForms, uuid \in Ids : add(form, uuid)
    \/ \E form \in AddForms, expense_id \in Ids : add_with_id(form, expense_id)
    \/ \E expense_id \in Ids, form \in UpdateForms : update(expense_id, form)
    \/ \E expense_id \in Ids, kwargs \in PartialKwargs : update_partial(expense_id, kwargs)
    \/ \E expense_id \in Ids : delete(expense_id)
    \/ \E a \in IndexArgs : index(a.category, a.month)
    \/ \E a \in TotalArgs : total(a.category, a.month)
    \/ \E month \in AnalyticsArgs : analytics_page(month)
    \/ \E uuid \in Ids : restart(uuid)

Spec == Init /\ [][Next]_vars

\* The read side on its own: the ledger is any list POST /add can have
\* built from QueryForms (with distinct ids), mirrored in the file, and the
\* handlers that read are applied to it with every filter.
InitQuery ==
    /\ \E n \in 0..MaxQueryLen : \E fs \in [1..n -> QueryForms] :
          expenses = [i \in 1..n |-> NewExpense(ParseFloat(fs[i].amount).val, fs[i], QueryId(i))]
    /\ file = _save(expenses)
    /\ lastOp = Done("init", "None", FALSE)
    /\ response = NoResponse
    /\ NoThreads

NextQuery ==
    \/ \E category \in CategoryArgs, month \in MonthArgs : index(category, month)
    \/ \E category \in {None, <<"f", "o", "o", "d">>}, month \in {None, May} :
          total(category, month)
    \/ \E month \in MonthArgs : analytics_page(month)

SpecQuery == InitQuery /\ [][NextQuery]_vars

(***************************************************************************)
(* Two request handlers as threads on the one Budget of app.py             *)
(* (budget = Budget() at module level; Flask serves each request in its    *)
(* own thread and budget.py takes no lock).  A step is what runs between   *)
(* two points where the interpreter can switch threads: a load of          *)
(* self.expenses, a list.append, one turn of a loop over a list, a store   *)
(* to self.expenses, open() and the close() that ends the with block.      *)
(* A list is an object: heap[k] is the content of list k and self_expenses *)
(* the list the attribute refers to, so that a thread can still hold, and  *)
(* append to or iterate, a list that delete has replaced.                  *)
(***************************************************************************)
MaxConcLen == 2

ConcForm == [amount |-> <<"5", "0">>, category |-> Transport,
             description |-> <<"b", "u", "s">>, date |-> May02]

\* The ledger the threads start from: records added earlier, one by one.
StoredId(i) == <<"s", Digits[i + 1]>>
StoredLedger(n) == [i \in 1..n |-> NewExpense(50, ConcForm, StoredId(i))]

\* The requests: POST /add (the Expense is built before Budget.add is
\* called; its id is new) and POST /delete/<id> of a stored id.
NewId(t) == <<"n", Digits[t + 1]>>
AddRequest(t) == [op |-> "add", exp |-> NewExpense(100, ConcForm, NewId(t)), expense_id |-> None]
DeleteRequest(i) == [op |-> "delete", exp |-> NoExpense, expense_id |-> StoredId(i)]
Requests(t) == {AddRequest(t)} \cup {DeleteRequest(i) : i \in 1..MaxConcLen}

InitConc ==
    /\ \E n \in 0..MaxConcLen :
          /\ heap = <<StoredLedger(n)>>
          /\ file = _save(StoredLedger(n))
    /\ self_expenses = 1
    /\ pc = [t \in Threads |-> "start"]
    /\ req \in {r \in [Threads -> UNION {Requests(t) : t \in Threads}] :
                   \A t \in Threads : r[t] \in Requests(t)}
    /\ loc = [t \in Threads |-> NoLocals]
    /\ overlapped = FALSE
    /\ expenses = <<>>
    /\ lastOp = Done("init", "None", FALSE)
    /\ response = NoResponse

Running(t) == pc[t] \notin {"start", "done"}

\* Thread t takes one step to position next with locals l; the step
\* overlaps when another thread is inside its handler.
Step(t, next, l) ==
    /\ pc' = [pc EXCEPT ![t] = next]
    /\ loc' = [loc EXCEPT ![t] = l]
    /\ overlapped' = (overlapped \/ \E u \in Threads \ {t} : Running(u))
    /\ UNCHANGED <<req, expenses, lastOp, response>>

\* The handler is entered.
start(t) ==
    /\ pc[t] = "start"
    /\ Step(t, IF req[t].op = "add" THEN "add_load" ELSE "delete_len", loc[t])
    /\ UNCHANGED <<heap, self_expenses, file>>

\* Budget.add: self.expenses is loaded ...
add_load(t) ==
    /\ pc[t] = "add_load"
    /\ Step(t, "add_append", [loc[t] EXCEPT !.ref = self_expenses])
    /\ UNCHANGED <<heap, self_expenses, file>>

\* ... and .append(expense) is called on that list; _save() follows.
add_append(t) ==
    /\ pc[t] = "add_append"
    /\ heap' = [heap EXCEPT ![loc[t].ref] = Append(@, req[t].exp)]
    /\ Step(t, "save_open", [loc[t] EXCEPT !.ret = "Expense"])
    /\ UNCHANGED <<self_expenses, file>>

\* Budget.delete: original = len(self.expenses)
delete_len(t) ==
    /\ pc[t] = "delete_len"
    /\ Step(t, "delete_load", [loc[t] EXCEPT !.original = Len(heap[self_expenses])])
    /\ UNCHANGED <<heap, self_expenses, file>>

\* The comprehension loads self.expenses and starts to iterate over it.
delete_load(t) ==
    /\ pc[t] = "delete_load"
    /\ Step(t, "delete_iter", [loc[t] EXCEPT !.ref = self_expenses, !.i = 1, !.acc = <<>>])
    /\ UNCHANGED <<heap, self_expenses, file>>

\* One turn of [e for e in self.expenses if e.id != expense_id]; the list
\* iterator ends when its index is past the list's length at that moment.
delete_iter(t) ==
    /\ pc[t] = "delete_iter"
    /\ LET l == loc[t]
           list == heap[l.ref]
       IN  IF l.i <= Len(list)
           THEN Step(t, "delete_iter",
                     [l EXCEPT !.i = l.i + 1,
                               !.acc = IF list[l.i].id # req[t].expense_id
                                       THEN Append(l.acc, list[l.i]) ELSE l.acc])
           ELSE Step(t, "delete_store", l)
    /\ UNCHANGED <<heap, self_expenses, file>>

\* self.expenses = <the new list>
delete_store(t) ==
    /\ pc[t] = "delete_store"
    /\ heap' = Append(heap, loc[t].acc)
    /\ self_expenses' = Len(heap) + 1
    /\ Step(t, "delete_test", loc[t])
    /\ UNCHANGED file

\* if len(self.expenses) < original: self._save(); return True
\* return False
delete_test(t) ==
    /\ pc[t] = "delete_test"
    /\ IF Len(heap[self_expenses]) < loc[t].original
       THEN Step(t, "save_open", [loc[t] EXCEPT !.ret = "True"])
       ELSE Step(t, "done", [loc[t] EXCEPT !.ret = "False"])
    /\ UNCHANGED <<heap, self_expenses, file>>

\* Budget._save: open(FILE, "w") creates or truncates the file; what is
\* written (the header first) stays in this handle's buffer until close.
save_open(t) ==
    /\ pc[t] = "save_open"
    /\ file' = [exists |-> TRUE, rows |-> <<>>]
    /\ Step(t, "save_load", [loc[t] EXCEPT !.buf = <<>>])
    /\ UNCHANGED <<heap, self_expenses>>

\* for exp in self.expenses: the attribute is loaded, the iteration starts.
save_load(t) ==
    /\ pc[t] = "save_load"
    /\ Step(t, "save_iter", [loc[t] EXCEPT !.ref = self_expenses, !.i = 1])
    /\ UNCHANGED <<heap, self_expenses, file>>

\* One turn of the loop: writer.writerow(exp.to_dict()).
save_iter(t) ==
    /\ pc[t] = "save_iter"
    /\ LET l == loc[t]
           list == heap[l.ref]
       IN  IF l.i <= Len(list)
           THEN Step(t, "save_iter",
                     [l EXCEPT !.i = l.i + 1, !.buf = Append(l.buf, to_dict(list[l.i]))])
           ELSE Step(t, "save_close", l)
    /\ UNCHANGED <<heap, self_expenses, file>>

\* A faulty close that drops the buffer; C10 tells it from the real one.
Flush_Discarding(buf, f) == f

\* The buffer of a handle opened with "w" is written from the start of the
\* file, over what is there; what lies beyond it stays (row by row here).
Flush(buf, f) ==
    [exists |-> TRUE, rows |-> buf \o SubSeq(f.rows, Len(buf) + 1, Len(f.rows))]

\* The with block ends: the handle is closed and its buffer written.
save_close(t) ==
    /\ pc[t] = "save_close"
    /\ file' = Flush(loc[t].buf, file)
    /\ Step(t, "done", loc[t])
    /\ UNCHANGED <<heap, self_expenses>>

NextConc ==
    \/ \E t \in Threads : start(t)
    \/ \E t \in Threads : add_load(t)
    \/ \E t \in Threads : add_append(t)
    \/ \E t \in Threads : delete_len(t)
    \/ \E t \in Threads : delete_load(t)
    \/ \E t \in Threads : delete_iter(t)
    \/ \E t \in Threads : delete_store(t)
    \/ \E t \in Threads : delete_test(t)
    \/ \E t \in Threads : save_open(t)
    \/ \E t \in Threads : save_load(t)
    \/ \E t \in Threads : save_iter(t)
    \/ \E t \in Threads : save_close(t)

SpecConc == InitConc /\ [][NextConc]_vars

(***************************************************************************)
(* Properties of the ledger.                                               *)
(***************************************************************************)
HasId(exps, expense_id) == \E i \in 1..Len(exps) : exps[i].id = expense_id

WriteOps == {"add", "add_with_id", "update", "update_partial", "delete"}
ReadOps == {"index", "total", "analytics_page"}

\* C1: after add the new record is the last element of the unfiltered list,
\* once, behind the records that were there, and a fresh Budget loaded from
\* the persisted file holds a list equal to the in-memory one, field by
\* field and in the same order, after any sequence of add, update, delete.
C1_AddThenRoundTrip ==
    [][ /\ \A form \in AddForms, uuid \in Ids :
             (add(form, uuid) /\ lastOp'.ret = "Expense") =>
                 /\ Len(expenses') = Len(expenses) + 1
                 /\ SubSeq(expenses', 1, Len(expenses)) = expenses
                 /\ expenses'[Len(expenses')].id = uuid
                 /\ read_all(expenses', None, None) = expenses'
        /\ lastOp'.op \in WriteOps =>
             \A uuid \in Ids : _load(file', uuid, Today) = expenses' ]_vars

\* C2: every stored expense has a non-empty id, no two stored expenses
\* share an id, and every category is one of CATEGORIES.
C2_IdsUniqueCategoriesValid ==
    /\ \A i \in 1..Len(expenses) :
          /\ expenses[i].id # <<>>
          /\ expenses[i].id # None
          /\ InCategories(expenses[i].category)
    /\ \A i, j \in 1..Len(expenses) : expenses[i].id = expenses[j].id => i = j

\* C3: delete removes exactly one record and returns True when the id is
\* stored, removes nothing and returns False otherwise; the size drops by
\* at most one; the records with another id stay, in their order.
C3_DeleteRemovesOne ==
    [][ \A expense_id \in Ids : delete(expense_id) =>
          /\ HasId(expenses, expense_id) =>
                Len(expenses') = Len(expenses) - 1 /\ lastOp'.ret = "True"
          /\ ~HasId(expenses, expense_id) =>
                expenses' = expenses /\ lastOp'.ret = "False"
          /\ Len(expenses') >= Len(expenses) - 1
          /\ expenses' = SelectSeq(expenses, LAMBDA e : e.id # expense_id) ]_vars

\* C4: update with an id that no stored expense has returns None, leaves
\* the list as it was and does not write the file, whatever the fields.
C4_UpdateUnknownId ==
    [][ \A expense_id \in Ids :
          ( /\ ~HasId(expenses, expense_id)
            /\ \/ \E form \in UpdateForms : update(expense_id, form)
               \/ \E kwargs \in PartialKwargs : update_partial(expense_id, kwargs) )
          => /\ expenses' = expenses
             /\ file' = file
             /\ ~lastOp'.saved
             /\ lastOp'.ret \in {"None", "error"}
             /\ lastOp'.op = "update_partial" => lastOp'.ret = "None" ]_vars

C4_Witness ==
    /\ lastOp.op = "update"
    /\ lastOp.ret = "None"
    /\ Len(expenses) = 2
    /\ file.exists
    /\ \E expense_id \in Ids : ~HasId(expenses, expense_id)

\* C5: when a write returns, the file holds one row per in-memory expense,
\* in order, with the same field values; reads change neither the list nor
\* the file; so the file mirrors the list after every completed operation.
C5_FileMirrorsLedger ==
    [][ /\ lastOp'.op \in ReadOps => expenses' = expenses /\ file' = file
        /\ file'.rows = _save(expenses').rows ]_vars

\* C6: update on a stored id gives each provided field the provided value
\* (description trimmed, a category outside CATEGORIES becoming "Other"),
\* keeps the fields not provided and the id, and changes no other record.
Provided(exp, kwargs) ==
    LET K == DOMAIN kwargs
    IN  [id          |-> exp.id,
         amount      |-> IF "amount" \in K THEN Float(kwargs["amount"]).val ELSE exp.amount,
         category    |-> IF "category" \in K
                         THEN (IF InCategories(kwargs["category"])
                               THEN kwargs["category"] ELSE Other)
                         ELSE exp.category,
         description |-> IF "description" \in K THEN Strip(kwargs["description"])
                         ELSE exp.description,
         date        |-> IF "date" \in K THEN kwargs["date"] ELSE exp.date]

FormFields(form) ==
    [amount |-> PyStr(form.amount), category |-> form.category,
     description |-> form.description, date |-> form.date]

C6_UpdateAppliesProvidedFields ==
    [][ \A expense_id \in Ids :
          /\ \A form \in UpdateForms :
               (update(expense_id, form) /\ lastOp'.ret = "Expense") =>
                  \E i \in 1..Len(expenses) :
                     /\ expenses[i].id = expense_id
                     /\ expenses' = [expenses EXCEPT ![i] = Provided(@, FormFields(form))]
          /\ \A kwargs \in PartialKwargs :
               (update_partial(expense_id, kwargs) /\ lastOp'.ret = "Expense") =>
                  \E i \in 1..Len(expenses) :
                     /\ expenses[i].id = expense_id
                     /\ expenses' = [expenses EXCEPT ![i] = Provided(@, kwargs)] ]_vars

\* C9: every stored expense has a positive amount.
C9_AmountsPositive == \A i \in 1..Len(expenses) : expenses[i].amount > 0

(***************************************************************************)
(* Properties of the reads.                                                *)
(***************************************************************************)
\* Two characters that are the same letter in either case, or equal.
SameLetter(a, b) ==
    \/ a = b
    \/ \E k \in 1..26 : {a, b} = {UpperAlpha[k], LowerAlpha[k]}

EqualIgnoringCase(s, t) ==
    Len(s) = Len(t) /\ \A i \in 1..Len(s) : SameLetter(s[i], t[i])

HasPrefix(s, p) == \A i \in 1..Len(p) : i <= Len(s) /\ s[i] = p[i]

\* A filter that is None or empty is absent.
Absent(x) == x = None \/ x = <<>>

Selected(e, category, month) ==
    /\ Absent(category) \/ EqualIgnoringCase(e.category, category)
    /\ Absent(month) \/ HasPrefix(e.date, month)

\* C7: read_all returns exactly the stored records, in insertion order,
\* whose category equals the category filter ignoring letter case and whose
\* date starts with the month filter; an absent filter excludes nothing;
\* filters that differ in letter case only give identical results.
C7_ReadAllFilters ==
    lastOp.op = "index" =>
        /\ response.expenses =
              SelectSeq(expenses, LAMBDA e : Selected(e, response.category, response.month))
        /\ \A category \in CategoryArgs :
              (~Absent(response.category) /\ EqualIgnoringCase(category, response.category))
                 => read_all(expenses, category, response.month) = response.expenses
        /\ (response.category = None /\ response.month = None) => response.expenses = expenses

C7_Witness ==
    /\ lastOp.op = "index"
    /\ response.category = <<"f", "o", "o", "d">>
    /\ response.month = May
    /\ Len(expenses) = 3
    /\ Len(response.expenses) = 1
    /\ \E i \in 1..3 : expenses[i].category = Food /\ ~HasPrefix(expenses[i].date, May)
    /\ \E i \in 1..3 : expenses[i].category = Transport /\ HasPrefix(expenses[i].date, May)

\* The records a month filter keeps, and sums over them.
InMonth(exps, month) ==
    {i \in 1..Len(exps) : Absent(month) \/ HasPrefix(exps[i].date, month)}

RECURSIVE SumOver(_, _)
SumOver(exps, I) ==
    IF I = {} THEN 0
    ELSE LET i == CHOOSE j \in I : TRUE
         IN  exps[i].amount + SumOver(exps, I \ {i})

RECURSIVE SumPercent(_)
SumPercent(b) == IF b = <<>> THEN 0 ELSE b[1].percent + SumPercent(Tail(b))

Abs(x) == IF x < 0 THEN 0 - x ELSE x

\* C8: summary returns the sum and the number of the filtered records and
\* a breakdown with one entry per category present, largest amount first;
\* each percent is amount/total*100 to the nearest tenth, the percents sum
\* to 100 within the rounding error (half a tenth per entry) when the
\* total is not zero, and all are 0 when the total is 0.
C8_Summary ==
    lastOp.op = "analytics_page" =>
        LET s == response.summary
            I == InMonth(expenses, response.month)
            b == s.breakdown
        IN  /\ s.total = SumOver(expenses, I)
            /\ s.count = Cardinality(I)
            /\ {b[k].category : k \in 1..Len(b)} = {expenses[i].category : i \in I}
            /\ \A k, l \in 1..Len(b) : b[k].category = b[l].category => k = l
            /\ \A k \in 1..Len(b) :
                  b[k].amount = SumOver(expenses, {i \in I : expenses[i].category = b[k].category})
            /\ \A k \in 1..Len(b) - 1 : b[k].amount >= b[k + 1].amount
            /\ s.total = 0 => \A k \in 1..Len(b) : b[k].percent = 0
            /\ s.total # 0 =>
                  /\ \A k \in 1..Len(b) :
                        2 * Abs(b[k].percent * s.total - 1000 * b[k].amount) <= Abs(s.total)
                  /\ 2 * Abs(SumPercent(b) - 1000) <= Len(b)

\* The scenario of the specification: 100 Food, 50 Transport, 200 Food give
\* total 350, Food 85.7 %, Transport 14.3 %.
C8_Witness ==
    /\ lastOp.op = "analytics_page"
    /\ response.month = None
    /\ response.summary.total = 350
    /\ response.summary.count = 3
    /\ response.summary.breakdown =
          << [category |-> Food, amount |-> 300, percent |-> 857],
             [category |-> Transport, amount |-> 50, percent |-> 143] >>

(***************************************************************************)
(* Properties of the handler threads.                                      *)
(***************************************************************************)
AllDone == \A t \in Threads : pc[t] = "done"

\* Every record a handler added is in the list self.expenses refers to,
\* and the file holds exactly that list.
NothingLost ==
    /\ \A t \in Threads :
          req[t].op = "add" =>
             \E i \in 1..Len(heap[self_expenses]) : heap[self_expenses][i] = req[t].exp
    /\ file = _save(heap[self_expenses])

\* C10 as stated: when two writes run as interleaved handler threads, then
\* after both complete no added record is lost and the file holds exactly
\* the in-memory list.
C10_InterleavedWritesLoseNothing == (AllDone /\ overlapped) => NothingLost

\* C10 as amended: the same holds when the two handlers do not overlap,
\* one returning before the other is entered.
C10_SequentialWritesLoseNothing == (AllDone /\ ~overlapped) => NothingLost

C10_Witness ==
    /\ AllDone
    /\ ~overlapped
    /\ \E t \in Threads : req[t].op = "add"
    /\ \E t \in Threads : req[t].op = "delete" /\ loc[t].ret = "True"
    /\ Len(heap[self_expenses]) = MaxConcLen

====
